---- MODULE Spec2Model ----
(***************************************************************************)
(* Model of streamlit_app.py: one execution of the Streamlit script (the   *)
(* file upload, the CSV read, the validation checks in script order, the   *)
(* Q&A block), and the two helper functions explain and build_gpt_context. *)
(*                                                                         *)
(* Numbers: cell values are integers.  The join-inflation ratio is kept in *)
(* hundredths (round(x, 2) * 100), the aggregation tolerance 0.01 is 1     *)
(* hundredth.  For integer cells every float operation of the script is    *)
(* exact, and round(total/unique, 2) is the round-half-even of the exact   *)
(* quotient whenever unique < 40 (every tie is then a dyadic rational).    *)
(***************************************************************************)
EXTENDS Integers, Sequences, FiniteSets, TLC

VARIABLES
    pc,                 \* position in the script
    uploaded_file,      \* st.file_uploader's value
    df,                 \* the DataFrame read from it
    total_rows,
    duplicate_count, dup_status,
    primary_key, pk_duplicate_count, pk_status,
    unique_keys, duplication_ratio, join_risk_status,
    null_columns, negative_columns,
    quantity_col, price_col, revenue_col, diff, agg_status,
    api_key, user_question,
    ask_pressed,        \* st.button("Ask")'s value in this run
    client,             \* TRUE once OpenAI(api_key=...) was constructed
    calls,              \* number of chat.completions.create calls issued
    context,            \* the string build_gpt_context returned, as its lines
    shown,              \* the texts the script displayed
    exception,          \* the exception the script run ended with
    args, ret           \* arguments and result of a direct call of a helper

vars == <<pc, uploaded_file, df, total_rows, duplicate_count, dup_status,
          primary_key, pk_duplicate_count, pk_status, unique_keys,
          duplication_ratio, join_risk_status, null_columns, negative_columns,
          quantity_col, price_col, revenue_col, diff, agg_status, api_key,
          user_question, ask_pressed, client, calls, context, shown,
          exception, args, ret>>

(***************************************************************************)
(* Bounds                                                                  *)
(***************************************************************************)
MaxRows == 2        \* rows of an uploaded file, whole-script runs
MaxKeyRows == 3     \* rows of an uploaded file, key-column runs
MaxAggRows == 2     \* rows of an uploaded file, aggregation runs
MaxLadderRows == 22 \* rows of a one-column file with few repeated keys
MaxList == 2        \* length of a column list handed to build_gpt_context

(***************************************************************************)
(* Program constants, in hundredths                                        *)
(***************************************************************************)
LowMaxHundredths == 105
MediumMaxHundredths == 200
AggToleranceHundredths == 1

(***************************************************************************)
(* Values                                                                  *)
(***************************************************************************)
\* A field of the CSV file: a number, an empty field, or other text.
NumField(n) == [kind |-> "num", val |-> n]
EmptyField == [kind |-> "empty", val |-> 0]
TextField(k) == [kind |-> "text", val |-> k]

\* A cell of the DataFrame: a number (numeric column), NaN, a string that
\* spells a number or another string (object column).
Num(n) == [kind |-> "num", val |-> n]
NaN == [kind |-> "nan", val |-> 0]
NumStr(n) == [kind |-> "numstr", val |-> n]
Str(k) == [kind |-> "str", val |-> k]

\* Python's None for a string-valued name, and a name that was never assigned.
NoneValue == "<None>"
Unbound == "<unbound>"
\* Python's None / a float for duplication_ratio.
NoRatio == [defined |-> FALSE, hundredths |-> 0]
Ratio(h) == [defined |-> TRUE, hundredths |-> h]

NoFile == [present |-> FALSE, header |-> <<>>, rows |-> <<>>]
File(h, r) == [present |-> TRUE, header |-> h, rows |-> r]
NoDF == [columns |-> <<>>, data |-> <<>>]

\* What a call did: returned a value, or raised an exception.
Returned(v) == [raised |-> "none", value |-> v]
Raised(e) == [raised |-> e, value |-> <<>>]

Range(s) == {s[i] : i \in 1..Len(s)}
Abs(x) == IF x < 0 THEN -x ELSE x

(***************************************************************************)
(* pandas operations the script uses                                       *)
(***************************************************************************)
\* Type inference of pd.read_csv for one column of the file: a column is
\* numeric when it has a row and no field of it is non-numeric text; a column
\* of a file without data rows has dtype object.
FileColumnIsNumeric(file, c) ==
    /\ Len(file.rows) > 0
    /\ \A i \in 1..Len(file.rows) : file.rows[i][c].kind # "text"

ConvertField(f, numeric) ==
    CASE f.kind = "empty" -> NaN
      [] f.kind = "num" -> IF numeric THEN Num(f.val) ELSE NumStr(f.val)
      [] f.kind = "text" -> Str(f.val)

\* Faulty variant: the reader rejects every file without data rows.
ReadCsvRaises_NoRows(file) == Len(file.rows) = 0

\* pd.read_csv raises EmptyDataError exactly when there are no columns to
\* parse; a header line without data rows yields a frame with zero rows.
ReadCsvRaises(file) == Len(file.header) = 0

read_csv(file) ==
    [columns |-> file.header,
     data |-> [i \in 1..Len(file.rows) |->
                 [c \in 1..Len(file.header) |->
                    ConvertField(file.rows[i][c], FileColumnIsNumeric(file, c))]]]

ColumnIndex(frame, name) ==
    CHOOSE c \in 1..Len(frame.columns) : frame.columns[c] = name

\* df[name]
Column(frame, name) ==
    [i \in 1..Len(frame.data) |-> frame.data[i][ColumnIndex(frame, name)]]

\* Faulty variant: duplicated(keep=False), every member of a repeated group counts.
duplicated_sum_KeepFalse(s) ==
    Cardinality({i \in 1..Len(s) : \E j \in 1..Len(s) : j # i /\ s[j] = s[i]})

\* Series.duplicated().sum() / DataFrame.duplicated().sum(): one pass with
\* the values seen so far; NaN is a value like any other here.
RECURSIVE DuplicatedFrom(_, _, _)
DuplicatedFrom(s, i, seen) ==
    IF i > Len(s) THEN 0
    ELSE (IF s[i] \in seen THEN 1 ELSE 0)
         + DuplicatedFrom(s, i + 1, seen \cup {s[i]})

duplicated_sum(s) == DuplicatedFrom(s, 1, {})

\* Faulty variant: nunique(dropna=False), NaN counts as a value.
nunique_KeepNaN(s) == Cardinality(Range(s))

\* Series.nunique(): dropna=True, NaN is not counted.
nunique(s) == Cardinality(Range(s) \ {NaN})

\* df.isnull().any() for one column
HasNull(frame, name) == NaN \in Range(Column(frame, name))

\* df.select_dtypes(include="number"): the columns of numeric dtype
IsNumberDtype(frame, name) ==
    /\ Len(frame.data) > 0
    /\ \A x \in Range(Column(frame, name)) : x.kind \in {"num", "nan"}

\* (df[c] < 0).any(); comparisons with NaN are False
HasNegative(frame, name) ==
    \E x \in Range(Column(frame, name)) : x.kind = "num" /\ x.val < 0

\* pd.to_numeric(x, errors="coerce") on one cell
to_numeric(x) ==
    CASE x.kind = "num" -> x
      [] x.kind = "numstr" -> Num(x.val)
      [] x.kind = "str" -> NaN
      [] x.kind = "nan" -> NaN

\* a * b on cells: NaN when either is NaN
Times(a, b) ==
    IF a.kind = "nan" \/ b.kind = "nan" THEN NaN ELSE Num(a.val * b.val)

\* Series.sum(): skipna=True, the sum of no value is 0
RECURSIVE SumFrom(_, _)
SumFrom(s, i) ==
    IF i > Len(s) THEN 0
    ELSE (IF s[i].kind = "num" THEN s[i].val ELSE 0) + SumFrom(s, i + 1)

series_sum(s) == SumFrom(s, 1)

\* round(total / unique, 2) in hundredths, round-half-even
Round2(total, unique) ==
    LET q == (total * 100) \div unique
        r == (total * 100) % unique
    IN  IF 2 * r < unique THEN q
        ELSE IF 2 * r > unique THEN q + 1
        ELSE IF q % 2 = 0 THEN q ELSE q + 1

(***************************************************************************)
(* get_openai_api_key                                                      *)
(***************************************************************************)
\* Faulty variant: the secrets lookup is not wrapped in try/except.
get_openai_api_key_NoTry(secrets, env) ==
    IF secrets = "<raises>" THEN Raised("StreamlitSecretNotFoundError")
    ELSE IF secrets # "<no key>" THEN Returned(secrets)
    ELSE Returned(env)

\* secrets: "<raises>" when reading st.secrets raises (no secrets file),
\* "<no key>" when it has no OPENAI_API_KEY entry, else the entry's value.
\* env: NoneValue when the variable is unset, else its value.
get_openai_api_key(secrets, env) ==
    IF secrets = "<raises>" THEN Returned(env)          \* except: pass
    ELSE IF secrets # "<no key>" THEN Returned(secrets)
    ELSE Returned(env)

\* Faulty variant: `if api_key is None`.
NotTruthy_OnlyNone(s) == s = NoneValue

\* Python truthiness of `not api_key`
NotTruthy(s) == s = NoneValue \/ s = ""

(***************************************************************************)
(* explain                                                                 *)
(***************************************************************************)
messages ==
    [duplicates |->
        [PASS |-> <<"No duplicate rows detected.",
                    "Duplicate rows usually occur due to incorrect joins.",
                    "No action needed.">>,
         WARNING |-> <<"Duplicate rows found in the report.",
                       "Often caused by joins that multiply rows.",
                       "Review joins and aggregation grain.">>],
     pk_duplicates |->
        [PASS |-> <<"Primary key is unique.",
                    "Uniqueness indicates correct data grain.",
                    "No action needed.">>,
         WARNING |-> <<"Primary key contains duplicate values.",
                       "Likely one-to-many joins without pre-aggregation.",
                       "Check join keys and table grain.">>],
     aggregation |->
        [PASS |-> <<"Reported revenue matches calculated revenue.",
                    "Aggregation logic appears correct.",
                    "No action needed.">>,
         FAIL |-> <<"Reported revenue does not match calculated revenue.",
                    "Usually caused by join duplication or wrong formulas.",
                    "Validate joins and aggregation logic.">>],
     join_risk |->
        [LOW |-> <<"Low risk of join inflation.",
                   "Row count aligns with primary key uniqueness.",
                   "No action needed.">>,
         MEDIUM |-> <<"Moderate risk of join inflation.",
                      "Some duplication exists at the key level.",
                      "Review joins to many-side tables.">>,
         HIGH |-> <<"High risk of join inflation.",
                    "Primary keys repeat many times, inflating totals.",
                    "Pre-aggregate before joins or fix join conditions.">>]]

\* Faulty variant: messages.get(check, {}).get(severity, <default>).
explain_WithDefault(check, severity) ==
    IF check \in DOMAIN messages /\ severity \in DOMAIN messages[check]
    THEN Returned(messages[check][severity])
    ELSE Returned(<<"Unknown check.", "No details available.", "No action needed.">>)

\* messages[check][severity]: a missing key raises KeyError
explain(check, severity) ==
    IF check \in DOMAIN messages
    THEN IF severity \in DOMAIN messages[check]
         THEN Returned(messages[check][severity])
         ELSE Raised("KeyError")
    ELSE Raised("KeyError")

(***************************************************************************)
(* build_gpt_context                                                       *)
(***************************************************************************)
\* ', '.join(names)
RECURSIVE JoinFrom(_, _)
JoinFrom(names, i) ==
    IF i > Len(names) THEN ""
    ELSE IF i = Len(names) THEN names[i]
    ELSE names[i] \o ", " \o JoinFrom(names, i + 1)

join(names) == JoinFrom(names, 1)

\* Faulty variant: the list is joined without the placeholder.
ListOrNone_NoPlaceholder(names) == join(names)

\* {', '.join(xs) if xs else 'None'}
ListOrNone(names) == IF names # <<>> THEN join(names) ELSE "None"

NullsLabel == "- Columns with nulls: "
NegativesLabel == "- Columns with negative values: "

\* The f-string, as its sequence of lines.
build_gpt_context(frame, dups, pk_dups, nulls, negatives, agg, join_risk) ==
    << "",
       "This document is a SQL report exported as CSV.",
       "",
       "Dataset overview:",
       "- Rows: " \o ToString(Len(frame.data)),
       "- Columns: " \o ToString(Len(frame.columns)),
       "",
       "Validation findings:",
       "- Duplicate rows: " \o ToString(dups),
       "- Primary key duplicates: " \o ToString(pk_dups),
       NullsLabel \o ListOrNone(nulls),
       NegativesLabel \o ListOrNone(negatives),
       "- Aggregation sanity status: " \o agg,
       "- Join inflation risk: " \o join_risk,
       "",
       "Answer strictly using this information.",
       "If unsure, say so clearly.",
       "" >>

\* str.strip() on a string given as its sequence of characters
IsSpace(ch) == ch \in {" ", "\t", "\n"}
RECURSIVE lstrip(_)
lstrip(s) == IF s # <<>> /\ IsSpace(Head(s)) THEN lstrip(Tail(s)) ELSE s
RECURSIVE rstrip(_)
rstrip(s) ==
    IF s # <<>> /\ IsSpace(s[Len(s)]) THEN rstrip(SubSeq(s, 1, Len(s) - 1)) ELSE s
strip(s) == rstrip(lstrip(s))

(***************************************************************************)
(* The script, one action per block                                        *)
(***************************************************************************)
helperVars == <<args, ret>>
inputVars == <<uploaded_file>>
dupVars == <<duplicate_count, dup_status>>
pkVars == <<primary_key, pk_duplicate_count, pk_status>>
joinVars == <<unique_keys, duplication_ratio, join_risk_status>>
scanVars == <<null_columns, negative_columns>>
aggVars == <<quantity_col, price_col, revenue_col, diff, agg_status>>
qaVars == <<api_key, user_question, ask_pressed, client, calls, context>>

NoArgs == [fn |-> "none", check |-> "", severity |-> "",
           null_columns |-> <<>>, negative_columns |-> <<>>]
NoRet == [raised |-> "none", value |-> <<>>]

\* The state when the script starts (start = "upload") for an uploader
\* holding `file`, or when a helper is called directly (start = "call").
InitWith(file, start, a) ==
    /\ pc = start
    /\ uploaded_file = file
    /\ df = NoDF
    /\ total_rows = 0
    /\ duplicate_count = 0 /\ dup_status = Unbound
    /\ primary_key = Unbound /\ pk_duplicate_count = 0 /\ pk_status = Unbound
    /\ unique_keys = 0 /\ duplication_ratio = NoRatio
    /\ join_risk_status = Unbound
    /\ null_columns = <<>> /\ negative_columns = <<>>
    /\ quantity_col = Unbound /\ price_col = Unbound /\ revenue_col = Unbound
    /\ diff = 0 /\ agg_status = Unbound
    /\ api_key = Unbound /\ user_question = <<>>
    /\ ask_pressed = FALSE /\ client = FALSE /\ calls = 0 /\ context = <<>>
    /\ shown = {}
    /\ exception = "none"
    /\ args = a /\ ret = NoRet

\* st.stop(): the run ends here
Stop(texts) ==
    /\ pc' = "stopped"
    /\ shown' = shown \cup texts

\* An uncaught exception ends the run; Streamlit shows the traceback.
Crash(e) ==
    /\ pc' = "crashed"
    /\ exception' = e

\* lines 126-133
Upload ==
    /\ pc = "upload"
    /\ IF ~uploaded_file.present
       THEN Stop({"Please upload a CSV file to begin."})
       ELSE pc' = "read" /\ shown' = shown
    /\ UNCHANGED <<inputVars, df, total_rows, dupVars, pkVars, joinVars,
                   scanVars, aggVars, qaVars, exception, helperVars>>

\* lines 138-153
ReadCsv ==
    /\ pc = "read"
    /\ IF ReadCsvRaises(uploaded_file)
       THEN /\ Stop({"Uploaded CSV is empty or invalid."})
            /\ UNCHANGED <<df, total_rows>>
       ELSE /\ df' = read_csv(uploaded_file)
            /\ total_rows' = Len(df'.data)
            /\ shown' = shown \cup {"Basic File Information"}
            /\ pc' = "row_dup"
    /\ UNCHANGED <<inputVars, dupVars, pkVars, joinVars, scanVars, aggVars,
                   qaVars, exception, helperVars>>

\* lines 158-171
RowDuplicates ==
    /\ pc = "row_dup"
    /\ LET n == duplicated_sum(df.data)
           status == IF n = 0 THEN "PASS" ELSE "WARNING"
           e == explain("duplicates", status)
       IN  /\ duplicate_count' = n
           /\ dup_status' = status
           /\ IF e.raised # "none"
              THEN Crash(e.raised) /\ shown' = shown
              ELSE /\ shown' = shown \cup {"Entire Row Duplicate Check", e.value[1]}
                   /\ pc' = "pk"
                   /\ exception' = exception
    /\ UNCHANGED <<inputVars, df, total_rows, pkVars, joinVars, scanVars,
                   aggVars, qaVars, helperVars>>

\* lines 176-189; the selectbox offers df.columns
PrimaryKeyDuplicates ==
    /\ pc = "pk"
    /\ \E k \in Range(df.columns) :
         LET n == duplicated_sum(Column(df, k))
             status == IF n = 0 THEN "PASS" ELSE "WARNING"
             e == explain("pk_duplicates", status)
         IN  /\ primary_key' = k
             /\ pk_duplicate_count' = n
             /\ pk_status' = status
             /\ IF e.raised # "none"
                THEN /\ Crash(e.raised)
                     /\ shown' = shown \cup {"Primary Key Duplicate Check"}
                ELSE /\ shown' = shown \cup {"Primary Key Duplicate Check", e.value[1]}
                     /\ pc' = "join"
                     /\ exception' = exception
    /\ UNCHANGED <<inputVars, df, total_rows, dupVars, joinVars, scanVars,
                   aggVars, qaVars, helperVars>>

\* Faulty variant: `elif duplication_ratio < 2`.
JoinRiskStatus_StrictMedium(hundredths) ==
    IF hundredths <= LowMaxHundredths THEN "LOW"
    ELSE IF hundredths < MediumMaxHundredths THEN "MEDIUM"
    ELSE "HIGH"

\* lines 201-206
JoinRiskStatus(hundredths) ==
    IF hundredths <= LowMaxHundredths THEN "LOW"
    ELSE IF hundredths <= MediumMaxHundredths THEN "MEDIUM"
    ELSE "HIGH"

\* lines 195-198
DuplicationRatio(total, unique) ==
    IF unique > 0 THEN Ratio(Round2(total, unique)) ELSE NoRatio

\* lines 194-223; join_risk_status is assigned only inside the `if`
JoinInflationRisk ==
    /\ pc = "join"
    /\ LET u == nunique(Column(df, primary_key))
           ratio == DuplicationRatio(total_rows, u)
       IN  /\ unique_keys' = u
           /\ duplication_ratio' = ratio
           /\ IF ratio.defined
              THEN LET status == JoinRiskStatus(ratio.hundredths)
                       e == explain("join_risk", status)
                   IN  /\ join_risk_status' = status
                       /\ IF e.raised # "none"
                          THEN Crash(e.raised) /\ shown' = shown
                          ELSE /\ shown' = shown \cup {"Join Inflation Risk", e.value[1]}
                               /\ pc' = "scan"
                               /\ exception' = exception
              ELSE /\ join_risk_status' = join_risk_status
                   /\ shown' = shown
                   /\ pc' = "scan"
                   /\ exception' = exception
    /\ UNCHANGED <<inputVars, df, total_rows, dupVars, pkVars, scanVars,
                   aggVars, qaVars, helperVars>>

\* line 228
NullColumns(frame) ==
    SelectSeq(frame.columns, LAMBDA c : HasNull(frame, c))

\* lines 229-232
NegativeColumns(frame) ==
    SelectSeq(frame.columns,
              LAMBDA c : IsNumberDtype(frame, c) /\ HasNegative(frame, c))

\* lines 228-244
NullNegativeChecks ==
    /\ pc = "scan"
    /\ null_columns' = NullColumns(df)
    /\ negative_columns' = NegativeColumns(df)
    /\ shown' = shown
         \cup {"Null / Missing Values", "Negative Values"}
         \cup {IF null_columns' = <<>> THEN "No missing values detected."
               ELSE "Missing values in: " \o join(null_columns')}
         \cup {IF negative_columns' = <<>> THEN "No negative values detected."
               ELSE "Negative values in: " \o join(negative_columns')}
    /\ pc' = "agg"
    /\ UNCHANGED <<inputVars, df, total_rows, dupVars, pkVars, joinVars,
                   aggVars, qaVars, exception, helperVars>>

\* lines 255-259: revenue.sum() - (qty * price).sum()
AggDiff(frame, q, p, r) ==
    LET qty == [i \in 1..Len(frame.data) |-> to_numeric(Column(frame, q)[i])]
        price == [i \in 1..Len(frame.data) |-> to_numeric(Column(frame, p)[i])]
        revenue == [i \in 1..Len(frame.data) |-> to_numeric(Column(frame, r)[i])]
        product == [i \in 1..Len(frame.data) |-> Times(qty[i], price[i])]
    IN  series_sum(revenue) - series_sum(product)

\* Faulty variant: `diff <= 0.01`, the abs is missing.
AggStatus_NoAbs(d) ==
    IF d * 100 <= AggToleranceHundredths THEN "PASS" ELSE "FAIL"

\* line 260: abs(diff) <= 0.01
AggStatus(d) ==
    IF Abs(d) * 100 <= AggToleranceHundredths THEN "PASS" ELSE "FAIL"

\* lines 249-266; each selectbox offers df.columns
AggregationSanity ==
    /\ pc = "agg"
    /\ \E q \in Range(df.columns), p \in Range(df.columns), r \in Range(df.columns) :
         LET d == AggDiff(df, q, p, r)
             status == AggStatus(d)
             e == explain("aggregation", status)
         IN  /\ quantity_col' = q /\ price_col' = p /\ revenue_col' = r
             /\ diff' = d
             /\ agg_status' = status
             /\ IF e.raised # "none"
                THEN /\ Crash(e.raised)
                     /\ shown' = shown \cup {"Aggregation Sanity Check"}
                ELSE /\ shown' = shown \cup {"Aggregation Sanity Check", e.value[1]}
                     /\ pc' = "key"
                     /\ exception' = exception
    /\ UNCHANGED <<inputVars, df, total_rows, dupVars, pkVars, joinVars,
                   scanVars, qaVars, helperVars>>

\* What the environment can hold when get_openai_api_key runs.
SecretsStates == {"<raises>", "<no key>", "", "sk-secret"}
EnvStates == {NoneValue, "", "sk-env"}

\* line 273
ResolveKey ==
    /\ pc = "key"
    /\ \E secrets \in SecretsStates, env \in EnvStates :
         LET k == get_openai_api_key(secrets, env)
         IN  IF k.raised # "none"
             THEN Crash(k.raised) /\ api_key' = api_key
             ELSE /\ api_key' = k.value
                  /\ pc' = "question"
                  /\ exception' = exception
    /\ shown' = shown \cup {"Ask Questions About This Report (AI)"}
    /\ UNCHANGED <<inputVars, df, total_rows, dupVars, pkVars, joinVars,
                   scanVars, aggVars, user_question, ask_pressed, client,
                   calls, context, helperVars>>

\* What the user can have typed, as sequences of characters.
Questions == {<<>>, <<" ", "\t">>, <<" ", "w", "h", "y", "?", " ">>}

\* line 274
TextInput ==
    /\ pc = "question"
    /\ \E q \in Questions : user_question' = q
    /\ pc' = "ask"
    /\ UNCHANGED <<inputVars, df, total_rows, dupVars, pkVars, joinVars,
                   scanVars, aggVars, api_key, ask_pressed, client, calls,
                   context, shown, exception, helperVars>>

KeyNotFoundText == "OpenAI API key not found."
EnterQuestionText == "Please enter a question."
AnswerText == "### Answer"

\* lines 276-316; `pressed` is st.button's value, `service` what the
\* completion service does with a request
Ask ==
    /\ pc = "ask"
    /\ \E pressed \in BOOLEAN, service \in {"answers", "fails"} :
         /\ ask_pressed' = pressed
         /\ IF ~pressed
            THEN /\ pc' = "done"
                 /\ UNCHANGED <<client, calls, context, shown, exception>>
            ELSE IF NotTruthy(api_key)
            THEN /\ shown' = shown \cup {KeyNotFoundText}
                 /\ pc' = "done"
                 /\ UNCHANGED <<client, calls, context, exception>>
            ELSE IF strip(user_question) = <<>>
            THEN /\ shown' = shown \cup {EnterQuestionText}
                 /\ pc' = "done"
                 /\ UNCHANGED <<client, calls, context, exception>>
            ELSE /\ client' = TRUE
                 /\ IF join_risk_status = Unbound
                    THEN \* line 296 reads a name that was never assigned
                         /\ Crash("NameError")
                         /\ UNCHANGED <<calls, context, shown>>
                    ELSE /\ context' = build_gpt_context(df, duplicate_count,
                                          pk_duplicate_count, null_columns,
                                          negative_columns, agg_status,
                                          join_risk_status)
                         /\ calls' = calls + 1
                         /\ IF service = "fails"
                            THEN Crash("APIError") /\ shown' = shown
                            ELSE /\ shown' = shown \cup {AnswerText}
                                 /\ pc' = "done"
                                 /\ exception' = exception
    /\ UNCHANGED <<inputVars, df, total_rows, dupVars, pkVars, joinVars,
                   scanVars, aggVars, api_key, user_question, helperVars>>

(***************************************************************************)
(* Direct calls of the helpers                                             *)
(***************************************************************************)
scriptVars == <<uploaded_file, df, total_rows, dupVars, pkVars, joinVars,
                scanVars, aggVars, qaVars, shown, exception>>

CallExplain ==
    /\ pc = "call"
    /\ args.fn = "explain"
    /\ ret' = explain(args.check, args.severity)
    /\ pc' = "returned"
    /\ UNCHANGED <<scriptVars, args>>

\* The frame and the scalar findings of the direct calls of build_gpt_context.
ContextFrame ==
    [columns |-> <<"A", "B", "None">>,
     data |-> << <<Num(-1), NaN, Num(-1)>>, <<NaN, Num(-1), NaN>> >>]

CallBuildGptContext ==
    /\ pc = "call"
    /\ args.fn = "build_gpt_context"
    /\ ret' = Returned(build_gpt_context(ContextFrame, 0, 0, args.null_columns,
                                         args.negative_columns, "PASS", "LOW"))
    /\ pc' = "returned"
    /\ UNCHANGED <<scriptVars, args>>

(***************************************************************************)
(* Inputs                                                                  *)
(***************************************************************************)
\* All files with the given header, at most `n` data rows, and the fields of
\* column c drawn from Fields[c].
FilesOver(header, Fields, n) ==
    {File(header, rows) :
       rows \in UNION {[1..k -> {r \in [1..Len(header) -> UNION Range(Fields)] :
                                   \A c \in 1..Len(header) : r[c] \in Fields[c]}]
                       : k \in 0..n}}

\* Whole-script runs: no upload, an empty file, one or two columns.
IdFields == {NumField(1), NumField(2), EmptyField}
AmtFields == {NumField(-1), TextField(1), EmptyField}
ScriptFiles ==
    {NoFile, File(<<>>, <<>>)}
    \cup FilesOver(<<"id">>, <<IdFields>>, MaxRows)
    \cup FilesOver(<<"id", "amt">>, <<IdFields, AmtFields>>, MaxRows)

\* Key-column runs: up to MaxKeyRows distinct key values, missing keys,
\* a text column with missing values.
KeyFields == {NumField(n) : n \in 1..MaxKeyRows} \cup {EmptyField}
TagFields == {TextField(1), EmptyField}
\* One-column files of n rows with the keys 1, 2, ..., k-1 and then k in
\* every further row: the ratios n / k around the two thresholds.
LadderFile(n, k) ==
    File(<<"id">>, [i \in 1..n |-> <<NumField(IF i < k THEN i ELSE k)>>])
LadderFiles == {LadderFile(n, k) : n \in 1..MaxLadderRows, k \in 1..MaxLadderRows}
KeyFiles ==
    FilesOver(<<"id", "tag">>, <<KeyFields, TagFields>>, MaxKeyRows)
    \cup LadderFiles

\* Aggregation runs.
QtyFields == {NumField(2), NumField(3), TextField(1)}
PriceFields == {NumField(5), EmptyField}
RevenueFields == {NumField(10), NumField(15), NumField(16)}
AggFiles ==
    FilesOver(<<"qty", "price", "revenue">>,
              <<QtyFields, PriceFields, RevenueFields>>, MaxAggRows)

\* Direct calls of explain: the checks and severities of the table and
\* others.
Checks == {"duplicates", "pk_duplicates", "aggregation", "join_risk",
           "nulls", "negatives", "row_duplicates", ""}
Severities == {"PASS", "WARNING", "FAIL", "LOW", "MEDIUM", "HIGH", "ERROR", ""}

\* Direct calls of build_gpt_context: lists of distinct column names.
ColumnNames == {"A", "B", "None"}
ColumnLists ==
    {l \in UNION {[1..k -> ColumnNames] : k \in 0..MaxList} :
       \A i, j \in 1..Len(l) : i # j => l[i] # l[j]}

(***************************************************************************)
(* Specifications                                                          *)
(***************************************************************************)
Validation ==
    \/ Upload
    \/ ReadCsv
    \/ RowDuplicates
    \/ PrimaryKeyDuplicates
    \/ JoinInflationRisk
    \/ NullNegativeChecks
    \/ AggregationSanity

Next ==
    \/ Validation
    \/ ResolveKey
    \/ TextInput
    \/ Ask

Init == \E f \in ScriptFiles : InitWith(f, "upload", NoArgs)
Spec == Init /\ [][Next]_vars

InitKey == \E f \in KeyFiles : InitWith(f, "upload", NoArgs)
SpecKey == InitKey /\ [][Validation]_vars

InitAgg == \E f \in AggFiles : InitWith(f, "upload", NoArgs)
SpecAgg == InitAgg /\ [][Validation]_vars

InitExplain ==
    \E c \in Checks, s \in Severities :
        InitWith(NoFile, "call",
                 [NoArgs EXCEPT !.fn = "explain", !.check = c, !.severity = s])
SpecExplain == InitExplain /\ [][CallExplain]_vars

InitContext ==
    \E n \in ColumnLists, m \in ColumnLists :
        InitWith(NoFile, "call",
                 [NoArgs EXCEPT !.fn = "build_gpt_context",
                                !.null_columns = n, !.negative_columns = m])
SpecContext == InitContext /\ [][CallBuildGptContext]_vars

(***************************************************************************)
(* Properties                                                              *)
(*                                                                         *)
(* The properties read the uploaded file's fields and the user's inputs    *)
(* directly, and state what the script's names and display must be.        *)
(***************************************************************************)
AfterPk == {"join", "scan", "agg", "key", "question", "ask", "done"}
AfterJoin == AfterPk \ {"join"}
AfterAgg == {"key", "question", "ask", "done"}
AfterKey == {"question", "ask", "done"}

PkDone == pc \in AfterPk \/ (pc = "crashed" /\ client)
JoinDone == pc \in AfterJoin \/ (pc = "crashed" /\ client)
AggDone == pc \in AfterAgg \/ (pc = "crashed" /\ client)

\* The field of data row i in the file's column called `name`.
FieldAt(i, name) ==
    uploaded_file.rows[i][CHOOSE c \in 1..Len(uploaded_file.header) :
                             uploaded_file.header[c] = name]
FileRows == 1..Len(uploaded_file.rows)
ChosenKeyFields == {FieldAt(i, primary_key) : i \in FileRows}
KeyHasMissing == EmptyField \in ChosenKeyFields

CredentialAbsent == api_key \in {NoneValue, ""}
CredentialPresent == api_key \notin {NoneValue, "", Unbound}
QuestionBlank == \A i \in 1..Len(user_question) : user_question[i] \in {" ", "\t", "\n"}

RECURSIVE SumFn(_)
SumFn(f) ==
    IF DOMAIN f = {} THEN 0
    ELSE LET i == CHOOSE i \in DOMAIN f : TRUE
         IN  f[i] + SumFn([j \in DOMAIN f \ {i} |-> f[j]])

\* C1: for every dataset and key column with zero distinct key values, no
\* step of the run raises, the ratio is undefined, the join-risk section is
\* skipped, and when Ask passes its guards the context is still built (with
\* the join-risk finding in it) and the request is issued.
C1_ZeroDistinctKeysNeverRaises ==
    (JoinDone /\ unique_keys = 0) =>
        /\ exception \in {"none", "APIError"}
        /\ ~duplication_ratio.defined
        /\ "Join Inflation Risk" \notin shown
        /\ (client => (context # <<>> /\ calls = 1))

\* C2: Ask with the credential absent or the question blank constructs no
\* client and issues no call; the two cases show two different messages;
\* a call is issued only with the credential present and a non-blank question.
C2_AskShortCircuits ==
    /\ (client \/ calls > 0) =>
           (ask_pressed /\ CredentialPresent /\ ~QuestionBlank)
    /\ calls <= 1
    /\ (ask_pressed /\ CredentialAbsent) =>
           /\ ~client /\ calls = 0
           /\ KeyNotFoundText \in shown
           /\ EnterQuestionText \notin shown
    /\ (ask_pressed /\ CredentialPresent /\ QuestionBlank) =>
           /\ ~client /\ calls = 0
           /\ EnterQuestionText \in shown
           /\ KeyNotFoundText \notin shown
    /\ KeyNotFoundText # EnterQuestionText

C2_Witness ==
    /\ pc = "done" /\ ask_pressed
    /\ api_key = "sk-env" /\ QuestionBlank /\ user_question # <<>>
    /\ EnterQuestionText \in shown /\ calls = 0

\* C3: with at least one distinct key value the ratio is total_rows /
\* distinct_keys rounded to 2 decimals, and the severity is LOW iff the
\* rounded ratio <= 1.05, MEDIUM iff 1.05 < ratio <= 2, HIGH iff ratio > 2.
C3_JoinRiskThresholds ==
    (JoinDone /\ unique_keys > 0) =>
        /\ duplication_ratio.defined
        /\ LET h == duplication_ratio.hundredths
               err == 100 * total_rows - h * unique_keys
           IN  /\ total_rows = Len(uploaded_file.rows)
               /\ -unique_keys <= 2 * err /\ 2 * err <= unique_keys
               /\ join_risk_status \in {"LOW", "MEDIUM", "HIGH"}
               /\ (join_risk_status = "LOW") <=> (h <= 105)
               /\ (join_risk_status = "MEDIUM") <=> (105 < h /\ h <= 200)
               /\ (join_risk_status = "HIGH") <=> (h > 200)

\* 20 rows over 19 distinct keys: 1.0526... is rounded to 1.05, hence LOW
C3_Witness ==
    /\ JoinDone /\ total_rows = 20 /\ unique_keys = 19
    /\ duplication_ratio = Ratio(105) /\ join_risk_status = "LOW"

\* C4: difference = sum(reported revenue) - sum(quantity x unit price) over
\* the parsable values (a product needs both factors), and the status is
\* PASS iff |difference| <= 0.01, FAIL otherwise.
C4_AggregationDifference ==
    AggDone =>
        LET Val(i, name) == FieldAt(i, name).val
            Ok(i, name) == FieldAt(i, name).kind = "num"
            rev == [i \in FileRows |->
                      IF Ok(i, revenue_col) THEN Val(i, revenue_col) ELSE 0]
            prod == [i \in FileRows |->
                       IF Ok(i, quantity_col) /\ Ok(i, price_col)
                       THEN Val(i, quantity_col) * Val(i, price_col) ELSE 0]
        IN  /\ diff = SumFn(rev) - SumFn(prod)
            /\ agg_status \in {"PASS", "FAIL"}
            /\ (agg_status = "PASS") <=> (-1 <= 100 * diff /\ 100 * diff <= 1)

\* quantity=[2,3], price=[5,5], revenue=[10,16] gives difference 1 and FAIL
C4_Witness ==
    /\ AggDone
    /\ uploaded_file.rows = << <<NumField(2), NumField(5), NumField(10)>>,
                               <<NumField(3), NumField(5), NumField(16)>> >>
    /\ quantity_col = "qty" /\ price_col = "price" /\ revenue_col = "revenue"
    /\ diff = 1 /\ agg_status = "FAIL"

\* C5 as stated: a file with no parsable rows (empty, or a header line and
\* zero data rows) ends in the empty/invalid-file error and nothing else runs.
C5_NoRowsEndsInError ==
    (uploaded_file.present /\ Len(uploaded_file.rows) = 0
       /\ pc \notin {"upload", "read"}) =>
        /\ pc = "stopped"
        /\ shown = {"Uploaded CSV is empty or invalid."}

\* C5 amended: a file with no columns to parse ends in the error at once and
\* neither a check nor the question step runs; a file with a header line is
\* read, with zero data rows too, and never shows that error.
C5_EmptyFileEndsInError ==
    (uploaded_file.present /\ pc \notin {"upload", "read"}) =>
        IF Len(uploaded_file.header) = 0
        THEN /\ pc = "stopped"
             /\ shown = {"Uploaded CSV is empty or invalid."}
             /\ dup_status = Unbound /\ pk_status = Unbound
             /\ agg_status = Unbound /\ join_risk_status = Unbound
             /\ api_key = Unbound /\ ~ask_pressed /\ ~client /\ calls = 0
        ELSE /\ pc # "stopped"
             /\ "Uploaded CSV is empty or invalid." \notin shown
             /\ (pc # "row_dup") => (dup_status \in {"PASS", "WARNING"})

C5_Witness ==
    /\ pc = "stopped" /\ uploaded_file = File(<<>>, <<>>)
    /\ "Uploaded CSV is empty or invalid." \in shown

\* C6: the primary-key-duplicate count is the number of rows whose key value
\* occurred in an earlier row; PASS iff it is 0, WARNING otherwise; N rows
\* with N distinct values give 0, two of them sharing a value give 1.
C6_PkDuplicateCount ==
    PkDone =>
        LET n == Len(uploaded_file.rows)
            repeats == {i \in FileRows : \E j \in 1..(i - 1) :
                           FieldAt(j, primary_key) = FieldAt(i, primary_key)}
        IN  /\ pk_duplicate_count = Cardinality(repeats)
            /\ (pk_status = "PASS") <=> (pk_duplicate_count = 0)
            /\ (pk_status = "WARNING") <=> (pk_duplicate_count # 0)
            /\ (Cardinality(ChosenKeyFields) = n) =>
                   (pk_duplicate_count = 0 /\ pk_status = "PASS")
            /\ (n > 0 /\ Cardinality(ChosenKeyFields) = n - 1) =>
                   (pk_duplicate_count = 1 /\ pk_status = "WARNING")

C6_Witness ==
    /\ PkDone /\ primary_key = "id"
    /\ Len(uploaded_file.rows) = 3 /\ Cardinality(ChosenKeyFields) = 2
    /\ ~KeyHasMissing
    /\ pk_duplicate_count = 1 /\ pk_status = "WARNING"

RECURSIVE Joined(_)
Joined(l) ==
    IF Len(l) = 1 THEN l[1]
    ELSE Joined(SubSeq(l, 1, Len(l) - 1)) \o ", " \o l[Len(l)]

\* What a column-list line of the context must read.
ListLine(label, l) == label \o (IF l = <<>> THEN "None" ELSE Joined(l))

EnumeratedPairs ==
    {<<"duplicates", "PASS">>, <<"duplicates", "WARNING">>,
     <<"pk_duplicates", "PASS">>, <<"pk_duplicates", "WARNING">>,
     <<"aggregation", "PASS">>, <<"aggregation", "FAIL">>,
     <<"join_risk", "LOW">>, <<"join_risk", "MEDIUM">>, <<"join_risk", "HIGH">>}

\* C9: explain returns a three-part tuple of non-empty texts for each of the
\* nine enumerated pairs and fails with a lookup error for every other pair.
C9_ExplainTotalOnTable ==
    (pc = "returned") =>
        IF <<args.check, args.severity>> \in EnumeratedPairs
        THEN /\ ret.raised = "none"
             /\ Len(ret.value) = 3
             /\ \A i \in 1..3 : ret.value[i] # ""
        ELSE /\ ret.raised = "KeyError"
             /\ ret.value = <<>>

C9_Witness ==
    /\ pc = "returned"
    /\ args.check = "join_risk" /\ args.severity = "PASS"
    /\ ret.raised = "KeyError"

\* C10 as stated: pk_duplicate_count + distinct_keys = total_rows for every
\* key column, so PASS iff the unrounded ratio is 1, and PASS on a non-empty
\* dataset implies LOW.
C10_KeyChecksAgree ==
    JoinDone =>
        /\ pk_duplicate_count + unique_keys = total_rows
        /\ (total_rows > 0 /\ pk_status = "PASS") => (join_risk_status = "LOW")

\* C10 amended: the sum is total_rows when the key column holds no missing
\* value and total_rows - 1 when it holds one or more; without missing
\* values PASS holds iff distinct_keys = total_rows, and PASS on a non-empty
\* dataset implies LOW.
C10_KeyChecksAgreeWithoutMissing ==
    JoinDone =>
        /\ pk_duplicate_count + unique_keys
             = total_rows - (IF KeyHasMissing THEN 1 ELSE 0)
        /\ ~KeyHasMissing =>
             /\ (pk_status = "PASS") <=> (unique_keys = total_rows)
             /\ (total_rows > 0 /\ pk_status = "PASS") =>
                    (join_risk_status = "LOW" /\ duplication_ratio = Ratio(100))

C10_Witness ==
    /\ JoinDone /\ primary_key = "id" /\ KeyHasMissing
    /\ total_rows = 3 /\ unique_keys = 2 /\ pk_duplicate_count = 0
    /\ pk_status = "PASS" /\ join_risk_status = "MEDIUM"

====
